---- MODULE Spec2Model ----
(***************************************************************************)
(* Model of the spreadsheet client of the Google Trends service            *)
(* (src/main.py, a Google Apps Script program): the operator runs          *)
(* fetchGoogleTrendsData, clearStoredData and createTemplate, one function *)
(* at a time, over a worksheet that holds the configuration cells B2:E2,   *)
(* B3, B4, B5, the hidden configuration row B6:F6 (SessionConfig), the     *)
(* hidden data-info row H6:J6 (DataInfo) and the output table from row 8   *)
(* on, and types into the configuration cells, also while a run waits for  *)
(* the server.                                                             *)
(*                                                                         *)
(* Representation.                                                         *)
(*   - a string is a tuple of one-character strings, so that trim, join    *)
(*     and split act on characters as the code does;                       *)
(*   - null / an empty cell / an absent row is the empty tuple <<>>, a     *)
(*     present row or Date is a one-element tuple;                         *)
(*   - a Date is <<d>> with d a whole number of days;                      *)
(*   - a number that need not be whole (a mean) is kept as the fraction   *)
(*     [n |-> sum, d |-> count] in lowest terms of which it is the nearest *)
(*     double; the division, the multiplication and Math.round of          *)
(*     normalizeData are those of IEEE 754 double precision, computed on   *)
(*     53-bit mantissas;                                                   *)
(*   - a series (the object processResponse returns) is                    *)
(*     [dates, keys, keywords]: keys is Object.keys(series.keywords) in    *)
(*     order, keywords maps each key to its values.                        *)
(***************************************************************************)
EXTENDS Integers, Sequences, FiniteSets, TLC

VARIABLES
    cells,      \* the configuration cells: [kw |-> B2:E2, start |-> B3, end |-> B4, freq |-> B5]
    cfgRow,     \* hidden row B6:F6: <<>> or <<[kw, start, end, freq, base]>>
    infoRow,    \* hidden row H6:J6: <<>> or <<[lastColumn, baseAverage, dataRows]>>
    table,      \* the sheet from row 8 on: a sequence of columns [h |-> header cell, v |-> cells below]
    sorts,      \* whether the server's records list the keywords sorted (TRUE) or in request order
    pc,         \* position of the running fetchGoogleTrendsData, "idle" between runs
    run,        \* number of runs started
    probe,      \* ensureServerReady: attempt, 1 outside the function
    attempt,    \* fetchFromAPI: attempt, 1 outside the function
    lastError,  \* fetchFromAPI: lastError, "" for null and once a series is returned
    posted,     \* whether this run has issued a POST /trend
    fetches,    \* calls of fetchFromAPI in this run
    current,    \* currentConfig: the configuration last read from the cells, by this run
                \* once it is past ensureServerReady, by an earlier run until then
    previous,   \* previousConfig of this run: <<>> or <<config>>
    mode,       \* executionMode.mode of this run, "" before it is determined
    path,       \* the write path being executed: "", "new" or "expand"
    existing,   \* executeExpansion: existingInfo, <<>> or <<info>>
    fetched,    \* the series fetchFromAPI returned: <<>> or <<series>>
    data,       \* the series handed to outputData: <<>> or <<series>>
    writeLog,   \* the persisted writes of this run, in order
    pre,        \* the persisted state when this run started, or as clearStoredData left it
    outcome,    \* how the last run ended, "" while a run is under way and once
                \* clearStoredData has run
    expandError,\* why this run's expansion failed, "" if it did not
    repeat,     \* whether this run repeats the configuration the run before it wrote
    call,       \* the call of fetchFromAPI under way or just ended: its requests, sleeps and result
    lastProbe,  \* the answer to the last GET /health of this run, "" before the first
    pureIn,     \* input of the pure function under check (function specifications only)
    pureOut     \* its result

vars == <<cells, cfgRow, infoRow, table, sorts, pc, run, probe, attempt, lastError,
          posted, fetches, current, previous, mode, path, existing, fetched, data,
          writeLog, pre, outcome, expandError, repeat, call, lastProbe, pureIn, pureOut>>

-----------------------------------------------------------------------------
(* Bounds of the model *)

\* runs of fetchGoogleTrendsData in one behaviour
MaxRuns == 3

-----------------------------------------------------------------------------
(* Strings *)

Range(s) == { s[i] : i \in DOMAIN s }

Max(a, b) == IF a >= b THEN a ELSE b

\* UTF-16 code units of the characters used
CharCode(ch) ==
    CASE ch = " " -> 32
      [] ch = "," -> 44
      [] ch = "a" -> 97
      [] ch = "b" -> 98
      [] ch = "c" -> 99
      [] OTHER    -> 65535

RECURSIVE TrimLeft(_)
TrimLeft(s) == IF s # <<>> /\ Head(s) = " " THEN TrimLeft(Tail(s)) ELSE s

RECURSIVE TrimRight(_)
TrimRight(s) ==
    IF s # <<>> /\ s[Len(s)] = " " THEN TrimRight(SubSeq(s, 1, Len(s) - 1)) ELSE s

\* String.prototype.trim
Trim(s) == TrimRight(TrimLeft(s))


\* Array.prototype.join(',')
RECURSIVE Join(_)
Join(xs) ==
    IF xs = <<>> THEN <<>>
    ELSE IF Len(xs) = 1 THEN xs[1]
    ELSE xs[1] \o <<",">> \o Join(Tail(xs))

\* String.prototype.split(','): the pieces between the commas, empty pieces kept
RECURSIVE SplitFrom(_, _)
SplitFrom(s, piece) ==
    IF s = <<>> THEN <<piece>>
    ELSE IF Head(s) = "," THEN <<piece>> \o SplitFrom(Tail(s), <<>>)
    ELSE SplitFrom(Tail(s), Append(piece, Head(s)))

Split(s) == SplitFrom(s, <<>>)

\* the default comparison of Array.prototype.sort: by UTF-16 code units
RECURSIVE StrLess(_, _)
StrLess(s, t) ==
    IF t = <<>> THEN FALSE
    ELSE IF s = <<>> THEN TRUE
    ELSE IF CharCode(Head(s)) # CharCode(Head(t)) THEN CharCode(Head(s)) < CharCode(Head(t))
    ELSE StrLess(Tail(s), Tail(t))

RECURSIVE Insert(_, _)
Insert(x, xs) ==
    IF xs = <<>> THEN <<x>>
    ELSE IF StrLess(Head(xs), x) THEN <<Head(xs)>> \o Insert(x, Tail(xs))
    ELSE <<x>> \o xs

\* Array.prototype.sort on strings
RECURSIVE Sort(_)
Sort(xs) == IF xs = <<>> THEN <<>> ELSE Insert(Head(xs), Sort(Tail(xs)))

\* Array.prototype.slice(1)
Slice1(xs) == IF xs = <<>> THEN <<>> ELSE Tail(xs)

-----------------------------------------------------------------------------
(* Configuration *)

NonEmpty(k) == Len(k) > 0

TrimNonEmpty(k) == Len(Trim(k)) > 0

\* String.prototype.toLowerCase on the values cell B5 takes
ToLowerCase(f) ==
    CASE f = "Daily"   -> "daily"
      [] f = "Weekly"  -> "weekly"
      [] f = "Monthly" -> "monthly"
      [] OTHER         -> f

\* readConfiguration
readConfiguration(sheetCells) ==
    LET keywords == SelectSeq([i \in 1..Len(sheetCells.kw) |-> Trim(sheetCells.kw[i])], NonEmpty)
    IN  [ keywords    |-> keywords,
          startDate   |-> sheetCells.start,
          endDate     |-> sheetCells.end,
          frequency   |-> ToLowerCase(sheetCells.freq),
          baseKeyword |-> IF Len(keywords) > 0 THEN keywords[1] ELSE <<>> ]

\* Date.prototype.toISOString
toISOString(date) == <<"iso", date[1]>>

\* new Date(string), for the strings toISOString and the server's records give
parseDate(str) == <<str[2]>>

\* the row saveConfigToSheet writes to B6:F6
configRow(config) ==
    [ kw    |-> Join(config.keywords),
      start |-> toISOString(config.startDate),
      end   |-> toISOString(config.endDate),
      freq  |-> config.frequency,
      base  |-> config.baseKeyword ]

\* readPreviousConfigFromSheet
readPreviousConfigFromSheet(row) ==
    IF row = <<>> \/ row[1].kw = <<>> THEN <<>>
    ELSE LET keywords == SelectSeq(Split(row[1].kw), TrimNonEmpty)
         IN  << [ keywords    |-> keywords,
                  startDate   |-> parseDate(row[1].start),
                  endDate     |-> parseDate(row[1].end),
                  frequency   |-> row[1].freq,
                  baseKeyword |-> IF row[1].base # <<>> THEN row[1].base
                                  ELSE IF Len(keywords) > 0 THEN keywords[1] ELSE <<>> ] >>

\* the limits of validateConfig
MaxKeywords == 4
MaxDailyDays == 270
MinWeeklyDays == 7
MinMonthlyDays == 30

\* Math.ceil((end - start) / one day), dates being whole days
daysDiff(config) == config.endDate[1] - config.startDate[1]

\* validateConfig without the limit of a daily range
validateConfigNoDailyLimit(config) ==
    /\ Len(config.keywords) # 0
    /\ Len(config.keywords) <= MaxKeywords
    /\ config.startDate # <<>>
    /\ config.endDate # <<>>
    /\ config.frequency \in {"daily", "weekly", "monthly"}
    /\ ~(config.frequency = "weekly" /\ daysDiff(config) < MinWeeklyDays)
    /\ ~(config.frequency = "monthly" /\ daysDiff(config) < MinMonthlyDays)

\* validateConfig
validateConfig(config) ==
    /\ Len(config.keywords) # 0
    /\ Len(config.keywords) <= MaxKeywords
    /\ config.startDate # <<>>
    /\ config.endDate # <<>>
    /\ config.frequency \in {"daily", "weekly", "monthly"}
    /\ ~(config.frequency = "daily" /\ daysDiff(config) > MaxDailyDays)
    /\ ~(config.frequency = "weekly" /\ daysDiff(config) < MinWeeklyDays)
    /\ ~(config.frequency = "monthly" /\ daysDiff(config) < MinMonthlyDays)

\* determineMode: the mode of the object it returns; prev is <<>> or <<config>>
determineMode(cur, prev) ==
    IF prev = <<>> THEN "NEW"
    ELSE IF cur.baseKeyword # prev[1].baseKeyword THEN "NEW"
    ELSE IF \/ cur.startDate # prev[1].startDate
            \/ cur.endDate # prev[1].endDate
            \/ cur.frequency # prev[1].frequency THEN "NEW"
    ELSE IF Sort(Slice1(cur.keywords)) # Sort(Slice1(prev[1].keywords)) THEN "EXPAND"
    ELSE "SAME"

-----------------------------------------------------------------------------
(* Series and arithmetic *)

RECURSIVE Sum(_)
Sum(xs) == IF xs = <<>> THEN 0 ELSE Head(xs) + Sum(Tail(xs))

RECURSIVE Gcd(_, _)
Gcd(a, b) == IF b = 0 THEN a ELSE Gcd(b, a % b)

\* the number n/d (d > 0) in lowest terms
Frac(n, d) ==
    LET g == Gcd(IF n < 0 THEN -n ELSE n, d)
    IN  [n |-> n \div g, d |-> d \div g]

\* a natural number below 2^60 in two limbs: <<hi, lo>> is hi * Limb + lo, lo < Limb
Limb == 2 ^ 30

WideTwice(w) == <<2 * w[1] + (2 * w[2]) \div Limb, (2 * w[2]) % Limb>>

WideAdd(a, b) == <<a[1] + b[1] + (a[2] + b[2]) \div Limb, (a[2] + b[2]) % Limb>>

\* a - b, for a >= b
WideSub(a, b) ==
    IF a[2] >= b[2] THEN <<a[1] - b[1], a[2] - b[2]>>
    ELSE <<a[1] - b[1] - 1, a[2] + Limb - b[2]>>

WideLess(a, b) == a[1] < b[1] \/ (a[1] = b[1] /\ a[2] < b[2])

\* v * w for a whole number 0 <= v < 128 and w < 2^53, the low limb in two halves
WideTimes(v, w) ==
    LET upper == v * (w[2] \div (2 ^ 15))
        low   == (upper % (2 ^ 15)) * (2 ^ 15) + v * (w[2] % (2 ^ 15))
    IN  <<v * w[1] + upper \div (2 ^ 15) + low \div Limb, low % Limb>>

\* w without its last n bits: floor(w / 2^n)
WideShifted(w, n) ==
    IF n <= 0 THEN w
    ELSE IF n >= 60 THEN <<0, 0>>
    ELSE IF n >= 30 THEN <<0, w[1] \div (2 ^ (n - 30))>>
    ELSE <<w[1] \div (2 ^ n), (w[1] % (2 ^ n)) * (2 ^ (30 - n)) + w[2] \div (2 ^ n)>>

\* a double that is not negative: [m, e] is m * 2^e, with m = 0 or 2^52 <= m < 2^53
DoubleZero == [m |-> <<0, 0>>, e |-> 0]

\* the number of bits of n, 0 < n < 2^30
BitLength(n) == CHOOSE k \in 1..30 : 2 ^ (k - 1) <= n /\ (k = 30 \/ n < 2 ^ k)

\* the number n, 0 <= n < 2^30, as a double: n * 2^k with its first bit at 2^52
toDouble(n) ==
    CHOOSE x \in UNION
        { { IF v = 0 THEN DoubleZero
            ELSE [ m |-> IF k >= 30 THEN <<v * (2 ^ (k - 30)), 0>>
                         ELSE <<v \div (2 ^ (30 - k)), (v % (2 ^ (30 - k))) * (2 ^ k)>>,
                   e |-> -k ] :
                k \in {IF v = 0 THEN 0 ELSE 53 - BitLength(v)} } : v \in {n} } : TRUE

\* round to nearest, ties to even: m the 53 leading bits of the exact result, more and
\* half whether what follows them is above or exactly half a unit of the last place
RoundedToNearest(m, e, more, half) ==
    CHOOSE x \in
        { IF r[1] >= 2 ^ 23 THEN [m |-> WideShifted(r, 1), e |-> e + 1] ELSE [m |-> r, e |-> e] :
            r \in { IF more \/ (half /\ m[2] % 2 = 1) THEN WideAdd(m, <<0, 1>>) ELSE m } } :
        TRUE

\* one more bit of the quotient by b: s = <<q, r>>, q the bits so far, r < b the remainder
QuotientBit(s, b) ==
    IF WideLess(WideTwice(s[2]), b)
    THEN <<WideTwice(s[1]), WideTwice(s[2])>>
    ELSE <<WideAdd(WideTwice(s[1]), <<0, 1>>), WideSub(WideTwice(s[2]), b)>>

\* n more bits of the quotient by b, n a multiple of 4
RECURSIVE QuotientBits(_, _, _)
QuotientBits(s, b, n) ==
    IF n = 0 THEN s
    ELSE CHOOSE bits \in
        { QuotientBits(s4, b, n - 4) :
            s4 \in { QuotientBit(s3, b) :
            s3 \in { QuotientBit(s2, b) :
            s2 \in { QuotientBit(s1, b) :
            s1 \in { QuotientBit(s, b) } } } } } : TRUE

\* x / y of two doubles, y not zero: 53 bits of the quotient of the mantissas, rounded
DoubleDivide(x, y) ==
    IF x.m = <<0, 0>> \/ y.m = <<0, 0>> THEN DoubleZero
    ELSE CHOOSE z \in
        { RoundedToNearest(qr[1], x.e - y.e - 52 - (IF WideLess(x.m, y.m) THEN 1 ELSE 0),
                           WideLess(y.m, WideTwice(qr[2])), WideTwice(qr[2]) = y.m) :
            qr \in { QuotientBits(<<<<0, 1>>, WideSub(a, y.m)>>, y.m, 52) :
                        a \in { IF WideLess(x.m, y.m) THEN WideTwice(x.m) ELSE x.m } } } : TRUE

\* the exact product w * 2^e, 2^52 <= w < 2^60, cut to 53 bits and rounded
Shortened(w, e) ==
    CHOOSE x \in
        { RoundedToNearest(WideShifted(w, n), e + n,
                           2 * (w[2] % (2 ^ n)) > 2 ^ n, 2 * (w[2] % (2 ^ n)) = 2 ^ n) :
            n \in { CHOOSE k \in 0..7 : w[1] \div (2 ^ k) < 2 ^ 23
                                         /\ (k = 0 \/ w[1] \div (2 ^ (k - 1)) >= 2 ^ 23) } } :
        TRUE

\* value * x of a whole number 0 <= value < 128 and a double
DoubleTimes(value, x) ==
    IF value = 0 \/ x.m = <<0, 0>> THEN DoubleZero
    ELSE CHOOSE z \in { Shortened(w, x.e) : w \in {WideTimes(value, x.m)} } : TRUE

\* Math.round of a double 0 <= x < 2^29: floor(x + 1/2), from floor(2 * x)
MathRound(x) == (WideShifted(x.m, -x.e - 1)[2] + 1) \div 2

\* Math.floor of a double 0 <= x < 2^29
MathFloor(x) == WideShifted(x.m, -x.e)[2]

\* the double a fraction stands for: n / d
numberOf(f) ==
    CHOOSE z \in { DoubleDivide(x, y) : x \in {toDouble(f.n)}, y \in {toDouble(f.d)} } : TRUE

\* data.keywords[keyword], the empty array standing for undefined as well
SeriesOf(series, keyword) ==
    IF keyword \in DOMAIN series.keywords THEN series.keywords[keyword] ELSE <<>>

\* calculateAverage
calculateAverage(array) ==
    IF Len(array) = 0 THEN Frac(0, 1) ELSE Frac(Sum(array), Len(array))

\* processResponse fails on an answer without records (records[0] is undefined)
processResponseThrows(body) == body.records = <<>>

\* processResponse: the keys of the first record in their order, one array per key,
\* a value missing from a record read as 0
processResponse(body) ==
    [ dates    |-> [i \in 1..Len(body.records) |-> parseDate(body.records[i].date)],
      keys     |-> body.keys,
      keywords |-> [k \in Range(body.keys) |->
                      [i \in 1..Len(body.records) |->
                          IF k \in DOMAIN body.records[i].val
                          THEN body.records[i].val[k] ELSE 0]] ]

\* normalizeData refusing a recorded base average of zero as well
normalizeErrorEitherZero(newData, existingInfo, baseKeyword) ==
    IF baseKeyword \notin DOMAIN newData.keywords THEN "no base keyword"
    ELSE IF \/ calculateAverage(newData.keywords[baseKeyword]).n = 0
            \/ existingInfo.baseAverage.n = 0 THEN "zero base average"
    ELSE ""

\* normalizeData: the error thrown, "" if none
normalizeError(newData, existingInfo, baseKeyword) ==
    IF baseKeyword \notin DOMAIN newData.keywords THEN "no base keyword"
    ELSE IF calculateAverage(newData.keywords[baseKeyword]).n = 0 THEN "zero base average"
    ELSE ""

\* normalizeData with Math.floor in place of Math.round
normalizeDataFloor(newData, existingInfo, baseKeyword) ==
    CHOOSE normalized \in UNION {
        { [ dates    |-> newData.dates,
            keys     |-> newData.keys,
            keywords |-> [k \in DOMAIN newData.keywords |->
                            IF k = baseKeyword
                            THEN [i \in 1..Len(newData.keywords[k]) |->
                                     MathFloor(existingBaseAvg)]
                            ELSE [i \in 1..Len(newData.keywords[k]) |->
                                     MathFloor(DoubleTimes(newData.keywords[k][i],
                                                           scalingFactor))]] ] :
            scalingFactor \in {DoubleDivide(existingBaseAvg, newBaseAvg)} } :
        newBaseAvg \in {numberOf(calculateAverage(newData.keywords[baseKeyword]))},
        existingBaseAvg \in {numberOf(existingInfo.baseAverage)} } :
        TRUE

\* normalizeData: the series returned when nothing is thrown; newBaseAvg,
\* existingBaseAvg and scalingFactor = existingBaseAvg / newBaseAvg are doubles
normalizeData(newData, existingInfo, baseKeyword) ==
    CHOOSE normalized \in UNION {
        { [ dates    |-> newData.dates,
            keys     |-> newData.keys,
            keywords |-> [k \in DOMAIN newData.keywords |->
                            IF k = baseKeyword
                            THEN [i \in 1..Len(newData.keywords[k]) |->
                                     MathRound(existingBaseAvg)]
                            ELSE [i \in 1..Len(newData.keywords[k]) |->
                                     MathRound(DoubleTimes(newData.keywords[k][i],
                                                           scalingFactor))]] ] :
            scalingFactor \in {DoubleDivide(existingBaseAvg, newBaseAvg)} } :
        newBaseAvg \in {numberOf(calculateAverage(newData.keywords[baseKeyword]))},
        existingBaseAvg \in {numberOf(existingInfo.baseAverage)} } :
        TRUE

-----------------------------------------------------------------------------
(* The output table *)

\* the header of the date column
DateHeader == <<"date">>

\* formatDate: 'yyyy-MM-dd' of a Date
formatDate(date) == <<"ymd", date[1]>>

\* a column nothing was written to
Blank == [h |-> <<>>, v |-> <<>>]

ColumnAt(t, c) == IF c \in 1..Len(t) THEN t[c] ELSE Blank

\* setValues on the header cell and the cells below it of one column
WriteColumn(old, header, values) ==
    [ h |-> header,
      v |-> values \o SubSeq(old.v, Len(values) + 1, Len(old.v)) ]

\* the table after setValues of the columns cols from column startColumn on
WriteColumns(t, startColumn, cols) ==
    [c \in 1..Max(Len(t), startColumn + Len(cols) - 1) |->
        IF c >= startColumn /\ c < startColumn + Len(cols)
        THEN WriteColumn(ColumnAt(t, c), cols[c - startColumn + 1].h, cols[c - startColumn + 1].v)
        ELSE ColumnAt(t, c)]

\* outputData, expansion: the columns of the keys after the first
expansionColumns(series) ==
    LET nonBaseKeywords == Slice1(series.keys)
    IN  [j \in 1..Len(nonBaseKeywords) |->
            [ h |-> nonBaseKeywords[j],
              v |-> [i \in 1..Len(series.dates) |-> series.keywords[nonBaseKeywords[j]][i]] ]]

\* outputData, new analysis: the date column and one column per key
newColumns(series) ==
    << [ h |-> DateHeader,
         v |-> [i \in 1..Len(series.dates) |-> formatDate(series.dates[i])] ] >>
    \o [j \in 1..Len(series.keys) |->
            [ h |-> series.keys[j],
              v |-> [i \in 1..Len(series.dates) |-> series.keywords[series.keys[j]][i]] ]]

\* outputData with the expansion written one column too far left
outputDataOverLast(t, series, startColumn, isExpansion) ==
    LET cols == IF isExpansion THEN expansionColumns(series) ELSE newColumns(series)
    IN  IF Len(cols) = 0 THEN t
        ELSE WriteColumns(t, IF isExpansion THEN startColumn - 1 ELSE startColumn, cols)

\* outputData: whether it writes anything: it returns before setValues without headers
outputDataWrites(series, isExpansion) ==
    Len(IF isExpansion THEN expansionColumns(series) ELSE newColumns(series)) > 0

\* outputData: the table after it
outputData(t, series, startColumn, isExpansion) ==
    LET cols == IF isExpansion THEN expansionColumns(series) ELSE newColumns(series)
    IN  IF Len(cols) = 0 THEN t ELSE WriteColumns(t, startColumn, cols)

\* clearDataArea clearing the range A8:C only
clearDataAreaThreeColumns(t) == [c \in 1..Len(t) |-> IF c <= 3 THEN Blank ELSE t[c]]

\* clearDataArea, its guard: the last row of the sheet is row 8 or below, that is some
\* cell of the table holds something (the sheet always has a last column)
hasDataRows(t) == \E c \in 1..Len(t) : t[c] # Blank

\* clearDataArea: rows 8 to the last row, columns 1 to the last column of the sheet,
\* cleared if there is such a row
clearDataArea(t) == IF hasDataRows(t) THEN <<>> ELSE t

\* saveDataInfoToSheet: the row written to H6:J6
dataInfoRow(series, baseKeyword) ==
    [ lastColumn  |-> Len(series.keys) + 1,
      baseAverage |-> calculateAverage(SeriesOf(series, baseKeyword)),
      dataRows    |-> Len(series.dates) ]

\* updateDataInfoInSheet counting the base keyword among the new columns
updateDataInfoCountsBase(existingInfo, newData, newStartColumn) ==
    [ lastColumn  |-> newStartColumn + Len(newData.keys) - 1,
      baseAverage |-> existingInfo.baseAverage,
      dataRows    |-> existingInfo.dataRows ]

\* updateDataInfoInSheet: the row written to H6:J6
updateDataInfoInSheet(existingInfo, newData, newStartColumn) ==
    [ lastColumn  |-> newStartColumn + Len(Slice1(newData.keys)) - 1,
      baseAverage |-> existingInfo.baseAverage,
      dataRows    |-> existingInfo.dataRows ]

\* readDataInfoFromSheet
readDataInfoFromSheet(row) ==
    IF row = <<>> \/ row[1].lastColumn = 0 THEN <<>> ELSE row

-----------------------------------------------------------------------------
(* What the operator types and what the server answers *)

kA == <<"a">>
kB == <<"b">>
kC == <<"c">>
kBC == <<"b", ",", "c">>
kSpaceA == <<" ", "a">>
kNone == <<>>

\* the values of B2:E2 the operator chooses from
KeywordRows ==
    { <<kA, kB, kNone, kNone>>,
      <<kSpaceA, kNone, kC, kNone>>,
      <<kA, kB, kC, kNone>>,
      <<kA, kC, kB, kNone>>,
      <<kA, kBC, kNone, kNone>>,
      <<kA, kB, kB, kNone>>,
      <<kB, kA, kNone, kNone>>,
      <<kB, kC, kNone, kNone>>,
      <<kA, kNone, kNone, kNone>>,
      <<kNone, kNone, kNone, kNone>> }

\* the values of B3, B4, B5 the operator chooses from
SettingRows ==
    { << <<0>>, <<58>>, "Weekly" >>,
      << <<0>>, <<90>>, "monthly" >>,
      << <<0>>, <<20>>, "monthly" >>,
      << <<0>>, <<300>>, "daily" >>,
      << <<58>>, <<0>>, "daily" >>,
      << <<0>>, <<5>>, "weekly" >>,
      << <<>>, <<58>>, "weekly" >>,
      << <<0>>, <<58>>, "yearly" >> }

Cells(k, s) == [kw |-> k, start |-> s[1], end |-> s[2], freq |-> s[3]]

\* the cells createTemplate leaves: three keywords, 1 February to 31 March (58 days), Weekly
TemplateCells == Cells(<<kA, kB, kC, kNone>>, << <<0>>, <<58>>, "Weekly" >>)

\* the cells of a run: the operator changes the keywords or the settings of the template
ConfigCells ==
    { Cells(k, << <<0>>, <<58>>, "Weekly" >>) : k \in KeywordRows }
    \cup { Cells(<<kA, kB, kNone, kNone>>, s) : s \in SettingRows }

\* the magnitudes of the scores of one answer
Levels == {0, 1, 2}

RECURSIVE Dedup(_)
Dedup(xs) ==
    IF xs = <<>> THEN <<>>
    ELSE IF xs[Len(xs)] \in Range(SubSeq(xs, 1, Len(xs) - 1))
         THEN Dedup(SubSeq(xs, 1, Len(xs) - 1))
         ELSE Append(Dedup(SubSeq(xs, 1, Len(xs) - 1)), xs[Len(xs)])

PositionOf(x, xs) == CHOOSE i \in 1..Len(xs) : xs[i] = x

\* the body of a 200 answer to the payload: one record for each end of the timeframe,
\* one score per keyword; asked, the keywords without repetition, and when, the two
\* dates, are each computed once
ServerBody(payload, level, sorted) ==
    CHOOSE body \in
        { [ keys    |-> IF sorted THEN Sort(asked) ELSE asked,
            records |-> [i \in 1..Len(when) |->
                           [ date |-> when[i],
                             val  |-> [k \in Range(asked) |->
                                         level * (PositionOf(k, asked) + i - 1)] ]] ] :
            asked \in {Dedup(payload.keywords)},
            when \in {<<payload.timeframe[1], payload.timeframe[2]>>} } : TRUE

\* the body of a 200 answer without records
EmptyBody == [keys |-> <<>>, records |-> <<>>]

\* the payload of fetchFromAPI
Payload(config) ==
    [ keywords  |-> config.keywords,
      timeframe |-> <<formatDate(config.startDate), formatDate(config.endDate)>>,
      frequency |-> config.frequency ]

\* the answers to POST /trend: a status and, for 200, a body; "throws" is a failed request
Answers(config, sorted) ==
    { [status |-> 200, body |-> ServerBody(Payload(config), l, sorted)] : l \in Levels }
    \cup { [status |-> 200, body |-> EmptyBody] }
    \cup { [status |-> c, body |-> EmptyBody] : c \in {429, 500, 400} }
    \cup { [status |-> 0, body |-> EmptyBody] }

\* the answers to GET /health
HealthAnswers == {"ready", "library missing", "not 200", "throws"}

-----------------------------------------------------------------------------
(* The run of fetchGoogleTrendsData *)

\* ensureServerReady: maxAttempts
maxAttempts == 3

\* fetchFromAPI: maxRetries
maxRetries == 4

\* Utilities.sleep: what the sleep is for and the seconds it lasts, from lo up to hi
Sleep(what, lo, hi) == [what |-> what, lo |-> lo, hi |-> hi]

\* the wait before a retry growing by 15 seconds per attempt
waitTimeLinear(n) == IF n > 1 THEN <<Sleep("backoff", n * 15, n * 15)>> ELSE <<>>

\* fetchFromAPI: the wait before a retry, none before the first attempt
waitTime(n) ==
    IF n > 1 THEN <<Sleep("backoff", (2 ^ (n - 1)) * 15, (2 ^ (n - 1)) * 15)>> ELSE <<>>

\* fetchFromAPI: the random delay before every POST, Math.random() * 10 + 5 before the
\* first and Math.random() * 5 + 3 before the others
delay(n) == IF n = 1 THEN <<Sleep("jitter", 5, 15)>> ELSE <<Sleep("jitter", 3, 8)>>

\* fetchFromAPI: the sleep after a 429 or a 500 answer, unless the attempt was the last
cooldown(n, status) ==
    IF n < maxRetries /\ status = 429 THEN <<Sleep("cooldown", 120, 120)>>
    ELSE IF n < maxRetries /\ status = 500 THEN <<Sleep("cooldown", 60, 60)>>
    ELSE <<>>

\* a loop of two passes
loopsAgainOnce(n) == n < 2

\* fetchFromAPI: whether the loop has a pass after attempt n
loopsAgain(n) == n < maxRetries

\* fetchFromAPI: the error thrown after the loop, made of maxRetries and lastError
exhausted(last) == <<"API call failed", maxRetries, last>>

\* no call of fetchFromAPI under way: requests and failed count the POSTs and the failed
\* attempts, waits the waits before a retry, before the sleeps of the last pass up to its
\* POST, after the sleeps since that POST, status and failure the last answer and the last
\* error, returned and raised how the call ended
NoCall ==
    [ requests |-> 0, waits |-> 0, failed |-> 0, before |-> <<>>, after |-> <<>>,
      status |-> -1, failure |-> "", returned |-> FALSE, raised |-> <<>> ]

Persisted == [cfg |-> cfgRow, info |-> infoRow, table |-> table]

Init ==
    /\ cells = TemplateCells
    /\ cfgRow = <<>>
    /\ infoRow = <<>>
    /\ table = <<>>
    /\ sorts \in BOOLEAN
    /\ pc = "idle"
    /\ run = 0
    /\ probe = 1
    /\ attempt = 1
    /\ lastError = ""
    /\ posted = FALSE
    /\ fetches = 0
    /\ current = readConfiguration(cells)
    /\ previous = <<>>
    /\ mode = ""
    /\ path = ""
    /\ existing = <<>>
    /\ fetched = <<>>
    /\ data = <<>>
    /\ writeLog = <<>>
    /\ pre = [cfg |-> <<>>, info |-> <<>>, table |-> <<>>]
    /\ outcome = ""
    /\ expandError = ""
    /\ repeat = FALSE
    /\ call = NoCall
    /\ lastProbe = ""
    /\ pureIn = <<>>
    /\ pureOut = <<>>

\* the function return of a run: the script waits for the next invocation
End(how) ==
    /\ pc' = "idle"
    /\ outcome' = how

\* the operator fills B2:E2 and B3:B5 and invokes fetchGoogleTrendsData; the cells are
\* not read before ensureServerReady has returned
StartRun ==
    /\ pc = "idle"
    /\ run < MaxRuns
    /\ \E c \in ConfigCells : cells' = c
    /\ run' = run + 1
    /\ pc' = "health"
    /\ probe' = 1
    /\ attempt' = 1
    /\ lastError' = ""
    /\ posted' = FALSE
    /\ fetches' = 0
    /\ previous' = <<>>
    /\ mode' = ""
    /\ path' = ""
    /\ existing' = <<>>
    /\ fetched' = <<>>
    /\ data' = <<>>
    /\ writeLog' = <<>>
    /\ pre' = Persisted
    /\ outcome' = ""
    /\ expandError' = ""
    /\ repeat' = (outcome \in {"new analysis done", "expanded"})
    /\ call' = NoCall
    /\ lastProbe' = ""
    /\ UNCHANGED <<cfgRow, infoRow, table, sorts, current, pureIn, pureOut>>

\* the operator types into B2:E2 and B3:B5 while ensureServerReady probes and sleeps
EditCells ==
    /\ pc = "health"
    /\ \E c \in ConfigCells \ {cells} : cells' = c
    /\ UNCHANGED <<cfgRow, infoRow, table, sorts, pc, run, probe, attempt, lastError,
                   posted, fetches, current, previous, mode, path, existing, fetched, data,
                   writeLog, pre, outcome, expandError, repeat, call, lastProbe,
                   pureIn, pureOut>>

\* clearStoredData: B6:J6 is cleared, that is SessionConfig and DataInfo; the table and
\* the configuration cells stay, and nothing of the last run is carried further
clearStoredData ==
    /\ pc = "idle"
    /\ cfgRow' = <<>>
    /\ infoRow' = <<>>
    /\ probe' = 1
    /\ attempt' = 1
    /\ lastError' = ""
    /\ posted' = FALSE
    /\ fetches' = 0
    /\ previous' = <<>>
    /\ mode' = ""
    /\ path' = ""
    /\ existing' = <<>>
    /\ fetched' = <<>>
    /\ data' = <<>>
    /\ writeLog' = <<>>
    /\ pre' = [cfg |-> <<>>, info |-> <<>>, table |-> table]
    /\ outcome' = ""
    /\ expandError' = ""
    /\ repeat' = FALSE
    /\ call' = NoCall
    /\ lastProbe' = ""
    /\ UNCHANGED <<cells, table, sorts, pc, run, current, pureIn, pureOut>>

\* createTemplate: the configuration cells are set to the template; row 6 and the table
\* are not touched
createTemplate ==
    /\ pc = "idle"
    /\ cells' = TemplateCells
    /\ UNCHANGED <<cfgRow, infoRow, table, sorts, pc, run, probe, attempt, lastError,
                   posted, fetches, current, previous, mode, path, existing, fetched, data,
                   writeLog, pre, outcome, expandError, repeat, call, lastProbe,
                   pureIn, pureOut>>

\* ensureServerReady probing again after every failed probe, without a last attempt
HealthProbeForever ==
    /\ pc = "health"
    /\ \E answer \in HealthAnswers :
         /\ lastProbe' = answer
         /\ CASE answer = "ready" ->
                  /\ pc' = "config"
                  /\ probe' = 1
                  /\ UNCHANGED outcome
              [] answer = "library missing" ->
                  /\ End("server not ready")
                  /\ UNCHANGED probe
              [] OTHER ->
                  /\ probe' = IF probe < maxAttempts THEN probe + 1 ELSE probe
                  /\ UNCHANGED <<pc, outcome>>
    /\ UNCHANGED <<call, cells, cfgRow, infoRow, table, sorts, run, attempt, lastError,
                   posted, fetches, current, previous, mode, path, existing, fetched, data,
                   writeLog, pre, expandError, repeat, pureIn, pureOut>>

\* ensureServerReady returning true on every 200 answer, whatever libraries it reports
HealthProbeIgnoresLibraries ==
    /\ pc = "health"
    /\ \E answer \in HealthAnswers :
         /\ lastProbe' = answer
         /\ IF answer \in {"ready", "library missing"}
            THEN /\ pc' = "config"
                 /\ probe' = 1
                 /\ UNCHANGED outcome
            ELSE IF probe < maxAttempts
                 THEN /\ probe' = probe + 1
                      /\ UNCHANGED <<pc, outcome>>
                 ELSE /\ End("server not ready")
                      /\ UNCHANGED probe
    /\ UNCHANGED <<call, cells, cfgRow, infoRow, table, sorts, run, attempt, lastError,
                   posted, fetches, current, previous, mode, path, existing, fetched, data,
                   writeLog, pre, expandError, repeat, pureIn, pureOut>>

\* ensureServerReady: one GET /health and what the loop does with the answer
HealthProbe ==
    /\ pc = "health"
    /\ \E answer \in HealthAnswers :
         /\ lastProbe' = answer
         /\ CASE answer = "ready" ->
                  /\ pc' = "config"
                  /\ probe' = 1
                  /\ UNCHANGED outcome
              [] answer = "library missing" ->
                  /\ End("server not ready")
                  /\ UNCHANGED probe
              [] OTHER ->
                  IF probe < maxAttempts
                  THEN /\ probe' = probe + 1
                       /\ UNCHANGED <<pc, outcome>>
                  ELSE /\ End("server not ready")
                       /\ UNCHANGED probe
    /\ UNCHANGED <<call, cells, cfgRow, infoRow, table, sorts, run, attempt, lastError, posted,
                   fetches, current, previous, mode, path, existing, fetched, data,
                   writeLog, pre, expandError, repeat, pureIn, pureOut>>

\* fetchGoogleTrendsData, lines 25-61: the configuration read from the cells as they
\* are now, validation, the previous configuration, the mode
Configure ==
    /\ pc = "config"
    /\ current' = readConfiguration(cells)
    /\ repeat' = (repeat /\ current' = current)
    /\ IF ~validateConfig(current')
       THEN /\ End("invalid configuration")
            /\ UNCHANGED <<previous, mode, path>>
       ELSE /\ previous' = readPreviousConfigFromSheet(cfgRow)
            /\ mode' = determineMode(current', previous')
            /\ path' = CASE mode' = "NEW" -> "new"
                         [] mode' = "EXPAND" -> "expand"
                         [] OTHER -> ""
            /\ pc' = CASE mode' = "NEW" -> "clear"
                       [] mode' = "EXPAND" -> "expand"
                       [] OTHER -> "same"
            /\ UNCHANGED outcome
    /\ UNCHANGED <<call, lastProbe, cells, cfgRow, infoRow, table, sorts, run, probe, attempt, lastError,
                   posted, fetches, existing, fetched, data, writeLog, pre,
                   expandError, pureIn, pureOut>>

\* fetchGoogleTrendsData, case SAME: the operator answers the rerun question
SameAnswer ==
    /\ pc = "same"
    /\ \E rerun \in BOOLEAN :
         IF rerun
         THEN /\ pc' = "clear"
              /\ path' = "new"
              /\ UNCHANGED outcome
         ELSE /\ End("nothing to do")
              /\ UNCHANGED path
    /\ UNCHANGED <<call, lastProbe, cells, cfgRow, infoRow, table, sorts, run, probe, attempt, lastError,
                   posted, fetches, current, previous, mode, existing, fetched, data,
                   writeLog, pre, expandError, repeat, pureIn, pureOut>>

\* executeNewAnalysis: clearDataArea, then fetchFromAPI is entered
ClearDataArea ==
    /\ pc = "clear"
    /\ table' = clearDataArea(table)
    /\ writeLog' = IF hasDataRows(table) THEN Append(writeLog, "clear") ELSE writeLog
    /\ pc' = "fetch"
    /\ attempt' = 1
    /\ lastError' = ""
    /\ fetches' = fetches + 1
    /\ call' = NoCall
    /\ UNCHANGED <<lastProbe, cells, cfgRow, infoRow, sorts, run, probe, posted, current, previous,
                   mode, path, existing, fetched, data, pre, outcome, expandError,
                   repeat, pureIn, pureOut>>

\* executeExpansion: readDataInfoFromSheet, then fetchFromAPI is entered
ExpandStart ==
    /\ pc = "expand"
    /\ existing' = readDataInfoFromSheet(infoRow)
    /\ IF existing' = <<>>
       THEN /\ expandError' = "no data info"
            /\ pc' = "fallback"
            /\ UNCHANGED <<attempt, lastError, fetches>>
       ELSE /\ pc' = "fetch"
            /\ attempt' = 1
            /\ lastError' = ""
            /\ fetches' = fetches + 1
            /\ UNCHANGED expandError
    /\ call' = NoCall
    /\ UNCHANGED <<lastProbe, cells, cfgRow, infoRow, table, sorts, run, probe, posted, current,
                   previous, mode, path, fetched, data, writeLog, pre, outcome,
                   repeat, pureIn, pureOut>>

\* fetchFromAPI: what the error of one attempt is, "" when the attempt returns a series
attemptError(answer) ==
    CASE answer.status = 200 ->
           IF processResponseThrows(answer.body) THEN "TypeError" ELSE ""
      [] answer.status = 429 -> "Rate limit exceeded"
      [] answer.status = 500 -> "Server internal error"
      [] answer.status = 0 -> "request failed"
      [] OTHER -> "API Error"

\* fetchFromAPI throws after the loop: executeNewAnalysis reports the error and returns,
\* executeExpansion offers the fallback
FetchFailed ==
    IF path = "expand"
    THEN /\ expandError' = "fetch failed"
         /\ pc' = "fallback"
         /\ UNCHANGED outcome
    ELSE /\ End("new analysis failed")
         /\ UNCHANGED expandError

\* fetchFromAPI: one pass of the loop: the sleeps, the POST /trend and what is done with
\* the answer
Post ==
    /\ pc = "fetch"
    /\ posted' = TRUE
    /\ \E answer \in Answers(current, sorts) :
         LET made == [call EXCEPT !.requests = @ + 1,
                                  !.waits    = @ + Len(waitTime(attempt)),
                                  !.before   = waitTime(attempt) \o delay(attempt),
                                  !.status   = answer.status]
             lost == [made EXCEPT !.failed  = @ + 1,
                                  !.failure = attemptError(answer),
                                  !.after   = cooldown(attempt, answer.status)]
         IN  IF attemptError(answer) = ""
             THEN /\ fetched' = <<processResponse(answer.body)>>
                  /\ pc' = IF path = "expand" THEN "normalize" ELSE "output"
                  /\ data' = IF path = "expand" THEN data ELSE fetched'
                  /\ attempt' = 1
                  /\ lastError' = ""
                  /\ call' = [made EXCEPT !.after = <<>>, !.returned = TRUE]
                  /\ UNCHANGED <<outcome, expandError>>
             ELSE /\ lastError' = attemptError(answer)
                  /\ IF loopsAgain(attempt)
                     THEN /\ attempt' = attempt + 1
                          /\ call' = lost
                          /\ UNCHANGED <<pc, outcome, expandError>>
                     ELSE /\ FetchFailed
                          /\ call' = [lost EXCEPT !.raised = exhausted(lastError')]
                          /\ UNCHANGED attempt
                  /\ UNCHANGED <<fetched, data>>
    /\ UNCHANGED <<lastProbe, cells, cfgRow, infoRow, table, sorts, run, probe, fetches,
                   current, previous, mode, path, existing, writeLog, pre, repeat,
                   pureIn, pureOut>>

\* executeExpansion: normalizeData
Normalize ==
    /\ pc = "normalize"
    /\ IF normalizeError(fetched[1], existing[1], current.baseKeyword) # ""
       THEN /\ expandError' = normalizeError(fetched[1], existing[1], current.baseKeyword)
            /\ pc' = "fallback"
            /\ UNCHANGED data
       ELSE /\ data' = <<normalizeData(fetched[1], existing[1], current.baseKeyword)>>
            /\ pc' = "output"
            /\ UNCHANGED expandError
    /\ call' = NoCall
    /\ UNCHANGED <<lastProbe, cells, cfgRow, infoRow, table, sorts, run, probe, attempt, lastError,
                   posted, fetches, current, previous, mode, path, existing, fetched,
                   writeLog, pre, outcome, repeat, pureIn, pureOut>>

\* executeNewAnalysis / executeExpansion: outputData
Output ==
    /\ pc = "output"
    /\ table' = IF path = "expand"
                THEN outputData(table, data[1], existing[1].lastColumn + 1, TRUE)
                ELSE outputData(table, data[1], 1, FALSE)
    /\ writeLog' = IF outputDataWrites(data[1], path = "expand")
                   THEN Append(writeLog, "table") ELSE writeLog
    /\ pc' = IF path = "expand" THEN "updateInfo" ELSE "saveConfig"
    /\ call' = NoCall
    /\ UNCHANGED <<lastProbe, cells, cfgRow, infoRow, sorts, run, probe, attempt, lastError, posted,
                   fetches, current, previous, mode, path, existing, fetched, data, pre,
                   outcome, expandError, repeat, pureIn, pureOut>>

\* saveConfigToSheet, in executeNewAnalysis before and in executeExpansion after the data info
SaveConfig ==
    /\ pc = "saveConfig"
    /\ cfgRow' = <<configRow(current)>>
    /\ writeLog' = Append(writeLog, "config")
    /\ IF path = "expand"
       THEN End("expanded")
       ELSE /\ pc' = "saveInfo"
            /\ UNCHANGED outcome
    /\ UNCHANGED <<call, lastProbe, cells, infoRow, table, sorts, run, probe, attempt, lastError, posted,
                   fetches, current, previous, mode, path, existing, fetched, data, pre,
                   expandError, repeat, pureIn, pureOut>>

\* executeNewAnalysis: saveDataInfoToSheet
SaveDataInfo ==
    /\ pc = "saveInfo"
    /\ infoRow' = <<dataInfoRow(data[1], current.baseKeyword)>>
    /\ writeLog' = Append(writeLog, "info")
    /\ End("new analysis done")
    /\ UNCHANGED <<call, lastProbe, cells, cfgRow, table, sorts, run, probe, attempt, lastError, posted,
                   fetches, current, previous, mode, path, existing, fetched, data, pre,
                   expandError, repeat, pureIn, pureOut>>

\* executeExpansion: updateDataInfoInSheet
UpdateDataInfo ==
    /\ pc = "updateInfo"
    /\ infoRow' = <<updateDataInfoInSheet(existing[1], data[1], existing[1].lastColumn + 1)>>
    /\ writeLog' = Append(writeLog, "info")
    /\ pc' = "saveConfig"
    /\ UNCHANGED <<call, lastProbe, cells, cfgRow, table, sorts, run, probe, attempt, lastError, posted,
                   fetches, current, previous, mode, path, existing, fetched, data, pre,
                   outcome, expandError, repeat, pureIn, pureOut>>

\* executeExpansion, catch, clearing the data area before the operator answers
FallbackClearsFirst ==
    /\ pc = "fallback"
    /\ table' = clearDataArea(table)
    /\ \E retry \in BOOLEAN :
         IF retry
         THEN /\ pc' = "clear"
              /\ path' = "new"
              /\ UNCHANGED outcome
         ELSE /\ End("expansion failed")
              /\ UNCHANGED path
    /\ UNCHANGED <<call, lastProbe, cells, cfgRow, infoRow, sorts, run, probe, attempt, lastError,
                   posted, fetches, current, previous, mode, existing, fetched, data,
                   writeLog, pre, expandError, repeat, pureIn, pureOut>>

\* executeExpansion, catch: the operator answers the fallback question
Fallback ==
    /\ pc = "fallback"
    /\ \E retry \in BOOLEAN :
         IF retry
         THEN /\ pc' = "clear"
              /\ path' = "new"
              /\ UNCHANGED outcome
         ELSE /\ End("expansion failed")
              /\ UNCHANGED path
    /\ UNCHANGED <<call, lastProbe, cells, cfgRow, infoRow, table, sorts, run, probe, attempt, lastError,
                   posted, fetches, current, previous, mode, existing, fetched, data,
                   writeLog, pre, expandError, repeat, pureIn, pureOut>>

Next ==
    \/ StartRun
    \/ EditCells
    \/ clearStoredData
    \/ createTemplate
    \/ HealthProbe
    \/ Configure
    \/ SameAnswer
    \/ ClearDataArea
    \/ ExpandStart
    \/ Post
    \/ Normalize
    \/ Output
    \/ SaveConfig
    \/ SaveDataInfo
    \/ UpdateDataInfo
    \/ Fallback

Spec == Init /\ [][Next]_vars

\* a step of the running fetchGoogleTrendsData: every action but those of the operator
RunStep ==
    \/ HealthProbe
    \/ Configure
    \/ SameAnswer
    \/ ClearDataArea
    \/ ExpandStart
    \/ Post
    \/ Normalize
    \/ Output
    \/ SaveConfig
    \/ SaveDataInfo
    \/ UpdateDataInfo
    \/ Fallback

\* runs of fetchGoogleTrendsData in one behaviour of the specification of termination
LiveRuns == 2

\* the operator invokes fetchGoogleTrendsData, up to LiveRuns times
StartRunLive == run < LiveRuns /\ StartRun

NextLive ==
    \/ StartRunLive
    \/ EditCells
    \/ clearStoredData
    \/ createTemplate
    \/ RunStep

\* the runs under the scheduling of the script: the code is sequential and synchronous,
\* every request is answered or fails, every sleep ends and the operator answers every
\* dialog, so a run that can take a step takes one
SpecLive == Init /\ [][NextLive]_vars /\ WF_vars(RunStep)

(* normalizeData on its own: every input of a bounded set, one application *)

\* the largest score of the inputs
MaxScore == 4

\* the scores of the inputs: the small ones and the 25 of the documented example
Scores == (0..MaxScore) \cup {25}

\* the recorded base averages of the inputs: the halves and the 50 of the example
BaseAverages == { Frac(h, 2) : h \in 0..MaxScore } \cup { Frac(50, 1) }

\* the series of n dates: the base keyword a first, second or missing
SeriesOfLength(n) ==
    { [ dates    |-> [i \in 1..n |-> <<i>>],
        keys     |-> ks,
        keywords |-> [k \in Range(ks) |-> IF k = kA THEN va ELSE vb] ] :
        ks \in { <<kA, kB>>, <<kB, kA>>, <<kB>> },
        va \in [1..n -> Scores], vb \in [1..n -> Scores] }

\* the fresh series of the inputs: no, one or two dates
NormSeries == UNION { SeriesOfLength(n) : n \in 0..2 }

\* inputs with a product value * existingBaseAvg / newBaseAvg of exactly a whole number
\* and a half, 58.5 and twice 13.5: the base series, the other series and the recorded
\* base average
HalfInputs ==
    { [ newData      |-> [ dates    |-> [i \in 1..Len(x[1]) |-> <<i>>],
                           keys     |-> <<kA, kB>>,
                           keywords |-> [k \in {kA, kB} |-> IF k = kA THEN x[1] ELSE x[2]] ],
        existingInfo |-> [lastColumn |-> 3, baseAverage |-> x[3], dataRows |-> Len(x[1])],
        baseKeyword  |-> kA ] :
        x \in { << <<6, 0>>, <<27, 27>>, Frac(13, 2) >>,
                << <<10, 0, 0>>, <<5, 5, 5>>, Frac(9, 1) >>,
                << <<10, 0, 0>>, <<15, 15, 15>>, Frac(3, 1) >>,
                << <<2, 2>>, <<27, 1>>, Frac(13, 2) >> } }

NormInputs ==
    { [ newData      |-> d,
        existingInfo |-> [lastColumn |-> 3, baseAverage |-> b, dataRows |-> 2],
        baseKeyword  |-> kA ] : d \in NormSeries, b \in BaseAverages }
    \cup HalfInputs

InitNorm ==
    /\ pureIn \in { <<x>> : x \in NormInputs }
    /\ pureOut = <<>>
    /\ pc = "apply"
    /\ cells = TemplateCells
    /\ cfgRow = <<>>
    /\ infoRow = <<>>
    /\ table = <<>>
    /\ sorts = FALSE
    /\ run = 0
    /\ probe = 1
    /\ attempt = 1
    /\ lastError = ""
    /\ posted = FALSE
    /\ fetches = 0
    /\ current = readConfiguration(cells)
    /\ previous = <<>>
    /\ mode = ""
    /\ path = ""
    /\ existing = <<>>
    /\ fetched = <<>>
    /\ data = <<>>
    /\ writeLog = <<>>
    /\ pre = [cfg |-> <<>>, info |-> <<>>, table |-> <<>>]
    /\ outcome = ""
    /\ expandError = ""
    /\ repeat = FALSE
    /\ call = NoCall
    /\ lastProbe = ""

\* one call normalizeData(newData, existingInfo, baseKeyword): what it throws or returns
ApplyNormalize ==
    /\ pc = "apply"
    /\ LET x   == pureIn[1]
           err == normalizeError(x.newData, x.existingInfo, x.baseKeyword)
       IN  pureOut' = << [ error  |-> err,
                           series |-> IF err = ""
                                      THEN <<normalizeData(x.newData, x.existingInfo,
                                                           x.baseKeyword)>>
                                      ELSE <<>> ] >>
    /\ pc' = "applied"
    /\ UNCHANGED <<call, lastProbe, cells, cfgRow, infoRow, table, sorts, run, probe,
                   attempt, lastError, posted, fetches, current, previous, mode, path,
                   existing, fetched, data, writeLog, pre, outcome, expandError, repeat,
                   pureIn>>

NextNorm == ApplyNormalize

SpecNorm == InitNorm /\ [][NextNorm]_vars

-----------------------------------------------------------------------------
(* The claims *)

RunDone == pc = "idle" /\ outcome # ""

\* the decision table as documented: the non-base keywords compared as sets
DecisionTable(cur, prev) ==
    IF prev = <<>> THEN "NEW"
    ELSE IF cur.baseKeyword # prev[1].baseKeyword THEN "NEW"
    ELSE IF \/ cur.startDate # prev[1].startDate
            \/ cur.endDate # prev[1].endDate
            \/ cur.frequency # prev[1].frequency THEN "NEW"
    ELSE IF Range(Slice1(cur.keywords)) # Range(Slice1(prev[1].keywords)) THEN "EXPAND"
    ELSE "SAME"

\* C1: the mode determineMode returns is the one the decision table gives, the
\* non-base keywords being compared as sets: NEW without a previous configuration,
\* NEW on another base keyword, NEW on other dates or frequency, EXPAND on another
\* set of non-base keywords, SAME otherwise.
C1_ModeFollowsDecisionTable ==
    mode # "" => mode = DecisionTable(current, previous)

\* C2: a run that repeats, field by field, the configuration the run before it
\* fetched and wrote is classified SAME, and unless the operator forces the rerun it
\* issues no POST /trend and leaves the table, SessionConfig and DataInfo alone.
C2_RepeatedConfigurationIsSame ==
    (repeat /\ mode # "") =>
        /\ mode = "SAME"
        /\ path = "" => (~posted /\ Persisted = pre)

\* C3: an expansion makes one fetch operation and leaves every cell of the columns
\* 1..existingInfo.lastColumn as it was before the run.
C3_ExpansionKeepsWrittenColumns ==
    (mode = "EXPAND" /\ path = "expand") =>
        /\ fetches <= 1
        /\ outcome = "expanded" => fetches = 1
        /\ pre.info # <<>> =>
             \A c \in 1..pre.info[1].lastColumn : ColumnAt(table, c) = ColumnAt(pre.table, c)

\* C3, its case: an expansion ended well and appended columns to a table it left alone
C3_Witness ==
    /\ outcome = "expanded"
    /\ Len(pre.table) > 1
    /\ Len(table) > Len(pre.table)

\* C4: the columns an expansion writes are exactly the renormalized columns of the
\* non-base keywords of the fetched series, side by side from column
\* existingInfo.lastColumn + 1 on: the base keyword's column is not written and no
\* non-base keyword is left out.
C4_ExpansionWritesNonBaseColumns ==
    outcome = "expanded" =>
        LET first   == existing[1].lastColumn + 1
            nonBase == Range(fetched[1].keys) \ {current.baseKeyword}
            written == first..(first + Cardinality(nonBase) - 1)
        IN  /\ { ColumnAt(table, c).h : c \in written } = nonBase
            /\ \A c \in written :
                 ColumnAt(table, c).h \in nonBase =>
                    ColumnAt(table, c).v = data[1].keywords[ColumnAt(table, c).h]

\* the input and the result of the applied normalizeData
NormIn == pureIn[1]
NormOut == pureOut[1]
NormReturned == pureOut # <<>> /\ NormOut.error = ""

\* the fresh base series, its sum and length: its mean is FreshSum / FreshLen
FreshBase == NormIn.newData.keywords[NormIn.baseKeyword]
FreshSum == Sum(FreshBase)
FreshLen == Len(FreshBase)
Recorded == NormIn.existingInfo.baseAverage

\* C5 as stated: every base value of the result is the recorded average b exactly and
\* every other value v is v * b / m exactly, m being the mean of the fresh base series;
\* dates and keywords are those of the fresh series.
C5_ExactRenormalization ==
    NormReturned =>
        LET out == NormOut.series[1]
        IN  /\ out.dates = NormIn.newData.dates
            /\ DOMAIN out.keywords = DOMAIN NormIn.newData.keywords
            /\ \A k \in DOMAIN out.keywords : \A i \in 1..Len(out.keywords[k]) :
                 IF k = NormIn.baseKeyword
                 THEN out.keywords[k][i] * Recorded.d = Recorded.n
                 ELSE out.keywords[k][i] * (Recorded.d * FreshSum)
                        = NormIn.newData.keywords[k][i] * Recorded.n * FreshLen

\* x is the integer nearest to n/d (d > 0), a half going upwards
Nearest(x, n, d) == 2 * x * d <= 2 * n + d /\ 2 * n + d < 2 * (x + 1) * d

\* x is an integer nearest to n/d (d > 0): the nearest one, either neighbour of a half
NearestEitherWay(x, n, d) == 2 * x * d <= 2 * n + d /\ 2 * n - d <= 2 * x * d

\* C5, amended: every base value of the result is the integer nearest to the recorded
\* average b, a half going upwards, and every other value v becomes an integer nearest
\* to v * b / m: the nearest one, and either neighbour when v * b / m is exactly a whole
\* number and a half, the product being computed in double precision as v * (b / m).
\* These are b and v * b / m themselves when they are whole: with b = 50 and m = 25
\* every base value is 50 and every other value is doubled. Dates, keywords and the
\* number of values per keyword are those of the fresh series.
C5_RoundedRenormalization ==
    NormReturned =>
        LET out == NormOut.series[1]
        IN  /\ out.dates = NormIn.newData.dates
            /\ out.keys = NormIn.newData.keys
            /\ DOMAIN out.keywords = DOMAIN NormIn.newData.keywords
            /\ \A k \in DOMAIN out.keywords :
                 /\ Len(out.keywords[k]) = Len(NormIn.newData.keywords[k])
                 /\ \A i \in 1..Len(out.keywords[k]) :
                      LET v == NormIn.newData.keywords[k][i]
                          w == out.keywords[k][i]
                      IN  /\ k = NormIn.baseKeyword => Nearest(w, Recorded.n, Recorded.d)
                          /\ (k = NormIn.baseKeyword /\ Recorded.d = 1) => w = Recorded.n
                          /\ k # NormIn.baseKeyword =>
                               NearestEitherWay(w, v * Recorded.n * FreshLen,
                                                Recorded.d * FreshSum)
                          /\ (k # NormIn.baseKeyword
                                /\ (v * Recorded.n * FreshLen) % (Recorded.d * FreshSum) = 0) =>
                               w * (Recorded.d * FreshSum) = v * Recorded.n * FreshLen
                          /\ (k # NormIn.baseKeyword /\ Recorded = Frac(50, 1)
                                /\ FreshSum = 25 * FreshLen) => w = 2 * v

\* C5, its case: b = 6.5 against a fresh base mean of 3: the base filled with 7, a
\* score of 27, whose exact product is 58.5, become 58, and a score of 1 (2.1666...)
\* become 2
C5_Witness ==
    /\ NormReturned
    /\ Recorded = Frac(13, 2)
    /\ FreshBase = <<6, 0>>
    /\ NormIn.newData.keywords[kB] = <<27, 27>>
    /\ NormOut.series[1].keywords[kB] = <<58, 58>>
    /\ NormOut.series[1].keywords[kA] = <<7, 7>>

\* C6: normalizeData throws exactly when the fresh series has no base keyword or the
\* mean of its base values is zero, an empty base series included; otherwise it
\* returns a series.
C6_ScalingErrorExactly ==
    pureOut # <<>> =>
        LET lacks == NormIn.baseKeyword \notin Range(NormIn.newData.keys)
            zero  == ~lacks /\ (FreshLen = 0 \/ FreshSum = 0)
        IN  /\ NormOut.error # "" <=> (lacks \/ zero)
            /\ NormOut.error = "" <=> NormOut.series # <<>>

\* C6, its cases: an empty base series is refused, and so is a series without the
\* base keyword (one state each would do; the first is asked for)
C6_Witness ==
    /\ pureOut # <<>>
    /\ NormIn.baseKeyword \in Range(NormIn.newData.keys)
    /\ FreshLen = 0
    /\ NormOut.error = "zero base average"
    /\ NormOut.series = <<>>

\* the columns of the table that are not as they were when the run started
ChangedColumns ==
    { c \in 1..Max(Len(table), Len(pre.table)) : ColumnAt(table, c) # ColumnAt(pre.table, c) }

\* C7: a finished expansion has set DataInfo.lastColumn to existingInfo.lastColumn plus
\* the number of columns it appended, the rightmost column it wrote, and has kept
\* baseAverage and dataRows; and every write of a run to DataInfo other than the one of
\* a new analysis keeps baseAverage and dataRows and does not lower lastColumn.
C7_ExpansionUpdatesLastColumn ==
    /\ [](outcome = "expanded" =>
            /\ infoRow # <<>> /\ pre.info # <<>>
            /\ infoRow[1].lastColumn = pre.info[1].lastColumn + Cardinality(ChangedColumns)
            /\ ChangedColumns # {} =>
                 \A c \in ChangedColumns : c <= infoRow[1].lastColumn
            /\ ChangedColumns # {} => infoRow[1].lastColumn \in ChangedColumns
            /\ infoRow[1].baseAverage = pre.info[1].baseAverage
            /\ infoRow[1].dataRows = pre.info[1].dataRows)
    /\ [][(infoRow' # infoRow /\ pc \notin {"saveInfo", "idle"}) =>
            /\ infoRow # <<>> /\ infoRow' # <<>>
            /\ infoRow'[1].baseAverage = infoRow[1].baseAverage
            /\ infoRow'[1].dataRows = infoRow[1].dataRows
            /\ infoRow'[1].lastColumn >= infoRow[1].lastColumn]_vars

\* C7, its case: an expansion of a table with a non-zero base average appended columns
C7_Witness ==
    /\ outcome = "expanded"
    /\ infoRow[1].lastColumn > pre.info[1].lastColumn + 1
    /\ infoRow[1].baseAverage.n > 0

\* C8: a new analysis first empties the table, then writes the date column and one
\* column per keyword of the series from column 1 on, header first and one row per
\* date, so that the table holds nothing else, and records lastColumn = keyword count
\* + 1, baseAverage = the mean of the base keyword's values, dataRows = the number of
\* dates.
C8_NewAnalysisRewritesTable ==
    /\ (path = "new" /\ pc \in {"fetch", "output"}) => table = <<>>
    /\ outcome = "new analysis done" =>
         LET series == data[1]
             count  == Len(series.keys)
             base   == SeriesOf(series, current.baseKeyword)
         IN  /\ Len(table) = count + 1
             /\ table[1].h = DateHeader
             /\ table[1].v = [i \in 1..Len(series.dates) |-> formatDate(series.dates[i])]
             /\ \A j \in 1..count :
                  /\ table[j + 1].h = series.keys[j]
                  /\ table[j + 1].v = series.keywords[series.keys[j]]
                  /\ Len(table[j + 1].v) = Len(series.dates)
             /\ infoRow # <<>>
             /\ infoRow[1].lastColumn = count + 1
             /\ infoRow[1].dataRows = Len(series.dates)
             /\ Len(base) > 0 =>
                  infoRow[1].baseAverage.n * Len(base) = infoRow[1].baseAverage.d * Sum(base)

\* C8, its case: a new analysis replaced a wider table
C8_Witness ==
    /\ outcome = "new analysis done"
    /\ Len(pre.table) > Len(table)
    /\ infoRow[1].baseAverage.n > 0

\* C9: in a run, every write to the table and to SessionConfig comes before the write
\* to DataInfo: the DataInfo write is the last persisted write.
C9_DataInfoWrittenLast ==
    \A i \in 1..Len(writeLog) : writeLog[i] = "info" => i = Len(writeLog)

\* C10: a failed expansion (no DataInfo, fetch given up, normalization refused) puts
\* the fallback question with the table, SessionConfig and DataInfo as they were when
\* the run started; declined, the run ends with them so; accepted, the new analysis is
\* run with the current configuration.
C10_FailedExpansionFallsBack ==
    /\ (pc = "fallback" \/ outcome = "expansion failed") =>
         /\ expandError \in {"no data info", "fetch failed", "no base keyword",
                             "zero base average"}
         /\ Persisted = pre
    /\ (mode = "EXPAND" /\ RunDone /\ outcome # "expanded") => expandError # ""
    /\ expandError # "" =>
         /\ mode = "EXPAND"
         /\ \/ pc = "fallback"
            \/ RunDone /\ outcome = "expansion failed"
            \/ /\ path = "new"
               /\ outcome \in {"", "new analysis done", "new analysis failed"}
               /\ outcome = "new analysis done" => cfgRow = <<configRow(current)>>

\* C10, its cases: the operator declined after a refused normalization, the table kept
C10_Witness ==
    /\ outcome = "expansion failed"
    /\ expandError = "zero base average"
    /\ table # <<>>
    /\ table = pre.table

\* C11 as stated: SessionConfig and DataInfo are written only in a run that fetched a
\* series and wrote it to the table before: before the first such run there is no
\* SessionConfig, and a run whose fetch operation was given up ends with SessionConfig
\* and DataInfo as they were when it started. An expansion whose series holds no
\* keyword but the base writes both without a write to the table.
C11_ConfigAndInfoAfterFetch ==
    /\ \A i \in 1..Len(writeLog) :
         writeLog[i] \in {"config", "info"} =>
            /\ fetched # <<>>
            /\ \E j \in 1..(i - 1) : writeLog[j] = "table"
    /\ (cfgRow # pre.cfg \/ infoRow # pre.info) =>
         (fetched # <<>> /\ \E j \in 1..Len(writeLog) : writeLog[j] = "table")
    /\ (RunDone /\ call.raised # <<>>) => (cfgRow = pre.cfg /\ infoRow = pre.info)
    /\ outcome \in {"new analysis failed", "expansion failed", "invalid configuration",
                    "server not ready", "nothing to do"} =>
         (cfgRow = pre.cfg /\ infoRow = pre.info)

\* C12: fetchFromAPI makes at most 4 requests; it returns a series after k failed
\* attempts, k < 4, with exactly k + 1 requests and k waits before a retry, and makes no
\* request after that; it throws only after 4 failed requests, and the error thrown
\* holds the error of the last attempt.
C12_RetriesBounded ==
    /\ maxRetries = 4
    /\ call.requests <= 4
    /\ call.returned =>
         /\ call.failed < 4
         /\ call.requests = call.failed + 1
         /\ call.waits = call.failed
         /\ call.raised = <<>>
         /\ pc # "fetch"
    /\ call.raised # <<>> =>
         /\ call.requests = 4
         /\ call.failed = 4
         /\ call.raised[3] = call.failure
         /\ ~call.returned
         /\ pc # "fetch"
    /\ (call.requests > 0 /\ ~call.returned /\ call.raised = <<>>) =>
         (pc = "fetch" /\ call.failed = call.requests /\ call.waits = call.requests - 1)

\* C12, its case: two failed attempts, then a series returned by the third request
C12_Witness ==
    /\ call.returned
    /\ call.failed = 2
    /\ call.requests = 3
    /\ call.waits = 2

\* C13: after a 400 answer to POST /trend the call of fetchFromAPI is over: no request
\* follows and the error is thrown.
C13_ValidationFailureNotRetried ==
    call.status = 400 => (pc # "fetch" /\ call.raised # <<>>)

\* the run under way, or the one that has just ended, has read its configuration: it
\* is past ensureServerReady
HasRead ==
    \/ pc \notin {"idle", "health", "config"}
    \/ RunDone /\ outcome # "server not ready"

\* the configurations the rules of validation reject, as documented
Rejected(config) ==
    \/ Len(config.keywords) = 0
    \/ Len(config.keywords) > 4
    \/ config.startDate = <<>>
    \/ config.endDate = <<>>
    \/ config.frequency \notin {"daily", "weekly", "monthly"}
    \/ /\ config.startDate # <<>> /\ config.endDate # <<>>
       /\ \/ config.frequency = "daily" /\ config.endDate[1] - config.startDate[1] > 270
          \/ config.frequency = "weekly" /\ config.endDate[1] - config.startDate[1] < 7
          \/ config.frequency = "monthly" /\ config.endDate[1] - config.startDate[1] < 30

\* C14: a run on a configuration that validation rejects (no keyword, more than 4, a
\* missing date, an unknown frequency, daily over 270 days, weekly under 7, monthly
\* under 30) goes no further than the validation: it issues no POST /trend and leaves
\* the table, SessionConfig and DataInfo as they were; and only such a run ends as
\* an invalid configuration.
C14_RejectedConfigurationChangesNothing ==
    /\ (HasRead /\ Rejected(current)) =>
         /\ RunDone
         /\ outcome = "invalid configuration"
         /\ ~posted
         /\ fetches = 0
         /\ writeLog = <<>>
         /\ Persisted = pre
    /\ outcome = "invalid configuration" => Rejected(current)

\* C14, its case: a daily range of 300 days refused over a sheet that holds a table
C14_Witness ==
    /\ outcome = "invalid configuration"
    /\ current.frequency = "daily"
    /\ current.endDate[1] - current.startDate[1] = 300
    /\ table # <<>>
    /\ cfgRow # <<>>

\* C15: the configuration of every POST /trend has its end date after its start date
\* and a range within the limits of its frequency: daily at most 270 days, weekly at
\* least 7, monthly at least 30.
C15_QueriesWithinLimits ==
    posted =>
        LET span == current.endDate[1] - current.startDate[1]
        IN  /\ span > 0
            /\ current.frequency = "daily" => span <= 270
            /\ current.frequency = "weekly" => span >= 7
            /\ current.frequency = "monthly" => span >= 30

\* C16: the configuration of every POST /trend has 1 to 4 keywords, none empty and no
\* two alike, so that the base keyword is not among the others.
C16_QueryKeywordsDistinct ==
    posted =>
        /\ Len(current.keywords) \in 1..4
        /\ \A i \in 1..Len(current.keywords) : current.keywords[i] # <<>>
        /\ \A i, j \in 1..Len(current.keywords) :
             i # j => current.keywords[i] # current.keywords[j]
        /\ current.baseKeyword \notin Range(Slice1(current.keywords))

\* the rightmost column of the table that holds something, 0 for an empty table
LastPopulated(t) ==
    IF \A c \in 1..Len(t) : t[c] = Blank THEN 0
    ELSE CHOOSE c \in 1..Len(t) : t[c] # Blank /\ \A e \in (c + 1)..Len(t) : t[e] = Blank

\* the number of data rows of the table: the rows below the header of its longest column
TableRows(t) ==
    IF t = <<>> THEN 0
    ELSE CHOOSE n \in { Len(t[c].v) : c \in 1..Len(t) } : \A c \in 1..Len(t) : Len(t[c].v) <= n

\* C17: when a run has ended, however it ended, a DataInfo that is present gives the
\* rightmost populated column and the number of data rows of the table, and under a
\* SessionConfig that is present the table holds a series, date column first.
C17_PersistedDescribesTable ==
    RunDone =>
        /\ infoRow # <<>> =>
             /\ infoRow[1].lastColumn = LastPopulated(table)
             /\ infoRow[1].dataRows = TableRows(table)
        /\ cfgRow # <<>> => (table # <<>> /\ table[1].h = DateHeader)

\* C18: no keyword is the header of two columns of the table.
C18_NoKeywordInTwoColumns ==
    \A c, e \in 1..Len(table) :
        (c # e /\ table[c].h # <<>>) => table[c].h # table[e].h

\* what is slept between the failed attempt n and the next POST as documented, n = 0
\* for the time before the first POST: the cooldown after a 429 or a 500 answer, the
\* backoff of 15 * 2^n seconds, the jitter
DocumentedSleeps(n, status) ==
    IF n = 0 THEN <<"jitter">>
    ELSE (CASE status = 429 -> << <<"cooldown", 120>> >>
            [] status = 500 -> << <<"cooldown", 60>> >>
            [] OTHER        -> <<>>)
         \o << <<"backoff", CASE n = 1 -> 30 [] n = 2 -> 60 [] OTHER -> 120>> >>
         \o <<"jitter">>

\* the sleeps seen as documented: a jitter by its name, the others by name and seconds
Slept(sleeps) ==
    [i \in 1..Len(sleeps) |->
        IF sleeps[i].what = "jitter" THEN "jitter"
        ELSE <<sleeps[i].what, sleeps[i].lo>>]

\* C19: the sleeps between a failed attempt n < 4 and the next POST are the cooldown
\* (120 seconds after a 429, 60 after a 500, none otherwise), then the backoff of
\* 15 * 2^n seconds (30, 60, 120), then a jitter; before the first POST only a jitter
\* is slept; nothing is slept after the fourth attempt nor after a returned series; a
\* backoff and a cooldown last exactly their seconds, a jitter lasts a positive time.
C19_BackoffBetweenAttempts ==
    /\ [][call'.requests = call.requests + 1 =>
            /\ call.requests < 4
            /\ Slept(call.after \o call'.before)
                 = DocumentedSleeps(call.requests, call.status)
            /\ \A i \in 1..Len(call'.before) :
                 IF call'.before[i].what = "jitter"
                 THEN 0 < call'.before[i].lo /\ call'.before[i].lo < call'.before[i].hi
                 ELSE call'.before[i].lo = call'.before[i].hi]_vars
    /\ []((call.requests = 4 \/ call.returned) => call.after = <<>>)
    /\ [](\A n \in 1..3 : DocumentedSleeps(n, 0)[1][2] = 15 * (2 ^ n))

\* C19, its case: the third POST, made after a 429 answer to the second, a cooldown
\* of 120 seconds and a backoff of 60 seconds, was answered 500: 60 seconds are slept
C19_Witness ==
    /\ call.requests = 3
    /\ call.before = <<Sleep("backoff", 60, 60), Sleep("jitter", 3, 8)>>
    /\ call.status = 500
    /\ call.after = <<Sleep("cooldown", 60, 60)>>
    /\ pc = "fetch"

\* C20: a run issues a POST /trend, and gets past ensureServerReady at all, only after a
\* GET /health of that run was answered 200 with both libraries; a 200 answer with a
\* library missing ends the run at once; any other answer is followed by another probe
\* until 3 probes are made, and the third ends the run.
C20_HealthBeforePost ==
    /\ maxAttempts = 3
    /\ probe \in 1..3
    /\ posted => lastProbe = "ready"
    /\ (run > 0 /\ pc \notin {"idle", "health"}) => lastProbe = "ready"
    /\ (RunDone /\ outcome # "server not ready") => lastProbe = "ready"
    /\ lastProbe = "library missing" => (RunDone /\ outcome = "server not ready")
    /\ lastProbe \in {"not 200", "throws"} =>
         \/ pc = "health" /\ probe \in 2..3
         \/ RunDone /\ outcome = "server not ready" /\ probe = 3
    /\ (RunDone /\ outcome = "server not ready") => lastProbe # "ready"

\* C20, its case: a POST /trend issued after a probe answered ready
C20_Witness ==
    /\ posted
    /\ lastProbe = "ready"
    /\ call.requests > 0

\* the bounds of a run: at most 3 health probes, every POST /trend is one of at most 4
\* of its call of fetchFromAPI, at most 2 calls a run, the second only as the new
\* analysis a failed expansion falls back to, that is at most 8 POSTs
RunBounded ==
    /\ [](probe <= 3 /\ call.requests <= 4 /\ fetches <= 2)
    /\ [](fetches = 2 => (mode = "EXPAND" /\ expandError # "" /\ path = "new"))
    /\ [][posted' => (call'.requests = call.requests + 1 \/ call'.requests = call.requests
                        \/ call' = NoCall)]_vars
    /\ [][pc = "fetch" => (call'.requests = call.requests + 1 /\ posted')]_vars
    /\ [][(pc = "health" /\ pc' = "health" /\ cells' = cells) => probe' = probe + 1]_vars

\* a run ended with the table written and the configuration and data info saved
EndedWritten ==
    /\ outcome \in {"new analysis done", "expanded"}
    /\ \E i \in 1..Len(writeLog) : writeLog[i] = "table"
    /\ cfgRow = <<configRow(current)>>

\* a run ended as an expansion that had no column to add, the series fetched holding
\* no keyword but the base: the table as it was, the configuration saved
EndedWithoutColumn ==
    /\ outcome = "expanded"
    /\ ~outputDataWrites(data[1], TRUE)
    /\ \A i \in 1..Len(writeLog) : writeLog[i] # "table"
    /\ table = pre.table
    /\ cfgRow = <<configRow(current)>>

\* a run ended with an error shown to the operator: the server not ready, the
\* configuration refused, the new analysis failed, the expansion failed and the
\* fallback declined
EndedWithError ==
    outcome \in {"server not ready", "invalid configuration", "new analysis failed",
                 "expansion failed"}

\* C21 as stated: every run that is started ends, within the bounds, and ends with
\* the table written or with an error shown to the operator.
C21_EndsWrittenOrWithError ==
    /\ (pc # "idle") ~> RunDone
    /\ RunBounded
    /\ [](RunDone => (EndedWritten \/ EndedWithError))

\* C21, amended: every run that is started ends whatever the server answers, after at
\* most 3 health probes and at most 4 POST /trend per call of fetchFromAPI (at most 2
\* calls, 8 POSTs, when a failed expansion falls back to a new analysis), and it ends
\* in one of four ways: with the table written, with an error shown to the operator,
\* or, the configuration being unchanged and the rerun declined, with nothing done and
\* no error: no POST /trend, and the table, SessionConfig and DataInfo left alone, or,
\* an expansion finding no keyword but the base in the series fetched, with the table
\* left as it was, no column added, and SessionConfig and DataInfo rewritten.
C21_RunTerminates ==
    /\ (pc # "idle") ~> RunDone
    /\ RunBounded
    /\ [](RunDone =>
            \/ EndedWritten
            \/ EndedWithError
            \/ EndedWithoutColumn
            \/ /\ outcome = "nothing to do"
               /\ mode = "SAME"
               /\ ~posted
               /\ Persisted = pre)

\* C21, its case: an expansion gave up after 4 POSTs, the new analysis it fell back to
\* gave up after 4 more, and the run ended with the error
C21_Witness ==
    /\ RunDone
    /\ outcome = "new analysis failed"
    /\ mode = "EXPAND"
    /\ expandError = "fetch failed"
    /\ fetches = 2
    /\ call.requests = 4
    /\ call.raised # <<>>

====
